---------------------------- MODULE Spec2Model ----------------------------
(***************************************************************************)
(* EleFits data-access core: position/region arithmetic, raster indexing   *)
(* and views, the file-memory region mapping, the chunked multi-column     *)
(* binary-table I/O and the compression model.  Each component is a small  *)
(* state machine over its own variable; a specification per component      *)
(* drives it and leaves the other components idle.                         *)
(***************************************************************************)
EXTENDS Integers, Sequences, FiniteSets, TLC

VARIABLES
  regions,    \* a FileMemRegions<2> being built and resolved
  indexTest,  \* the index computation of a shape and a position, both paths
  raster,     \* a Raster and the last access (at, slice) made on it
  bintable,   \* a binary table, the in-memory columns and the chunk loop
  compression, \* a Factor, a Quantization or a compression algorithm
  wrapper,    \* an operation of the wrapper and the engine calls it makes
  mefFile     \* a multi-extension file, its compression setting and HDUs

vars ==
  <<regions, indexTest, raster, bintable, compression, wrapper, mefFile>>

Min(a, b) == IF a < b THEN a ELSE b

Max(a, b) == IF a > b THEN a ELSE b

(***************************************************************************)
(* Position and Region arithmetic.  A Position is a tuple of integers, one *)
(* per axis; a Region is a pair of positions, front and back (inclusive).  *)
(***************************************************************************)

\* Component of a back position meaning "up to the natural bound".
Unresolved == -1

\* Neutral "no value" marker of the idle components.
None == "none"

PosAdd(a, b) == [i \in DOMAIN a |-> a[i] + b[i]]

PosSub(a, b) == [i \in DOMAIN a |-> a[i] - b[i]]

PosShift(a, k) == [i \in DOMAIN a |-> a[i] + k]

zero(n) == [i \in 1..n |-> 0]

max(n) == [i \in 1..n |-> Unresolved]

isMax(p) == \A i \in DOMAIN p : p[i] = Unresolved

shape(region) == PosShift(PosSub(region.back, region.front), 1)

fromShape(frontPosition, regionShape) ==
  [front |-> frontPosition,
   back |-> PosShift(PosAdd(frontPosition, regionShape), -1)]

whole(n) == [front |-> zero(n), back |-> max(n)]

(***************************************************************************)
(* The components at rest.                                                 *)
(***************************************************************************)

\* Default dimension of FileMemRegions.
Dim == 2

RegionsIdle ==
  [pc |-> "idle", fileBack |-> zero(Dim), memoryBack |-> zero(Dim),
   ctor |-> None, argRegion |-> whole(Dim), argPosition |-> zero(Dim),
   m_file |-> whole(Dim), m_memory |-> whole(Dim)]

IndexTestIdle == [pc |-> "idle"]

RasterIdle == [pc |-> "idle"]

CompressionIdle == [pc |-> "idle"]

WrapperIdle == [pc |-> "idle"]

MefFileIdle == [pc |-> "idle"]

BintableIdle ==
  [pc |-> "idle", fileRows |-> 0, fileRepeats |-> <<>>, fileData |-> <<>>,
   op |-> None, indices |-> <<>>, columns |-> <<>>, after |-> <<>>,
   rows |-> 0, engineChunk |-> 0, chunkRows |-> 0, first |-> 0, i |-> 0,
   chunks |-> <<>>, calls |-> <<>>, returned |-> <<>>, single |-> <<>>]

(***************************************************************************)
(* Index computation: the offset of a position in the buffer of a raster   *)
(* of a given shape, by the fixed-dimension recursion and by the           *)
(* variable-dimension loop.                                                *)
(***************************************************************************)

\* Dimension of the shape and of the position of the index test.
IndexTestDim == 4

\* Largest component of the shapes and positions of the index test.
MaxRand == 2

RECURSIVE IndexFixed(_, _, _)
\* IndexRecursionImpl<N, I>::index: the contribution of axis k and of the
\* axes after it.
IndexFixed(s, pos, k) ==
  IF k >= Len(s) THEN pos[k]
  ELSE pos[k] + s[k] * IndexFixed(s, pos, k + 1)

RECURSIVE IndexVariableLoop(_, _, _, _)
\* The loop of IndexRecursionImpl<-1>::index: j axes folded into res.
IndexVariableLoop(s, pos, j, res) ==
  LET n == Len(s)
  IN  IF j >= n THEN res
      ELSE IndexVariableLoop(s, pos, j + 1, pos[n - j] + s[n - j] * res)

RECURSIVE IndexVariableForward(_, _, _, _)
\* The loop folding the axes from the first to the last.
IndexVariableForward(s, pos, j, res) ==
  IF j >= Len(s) THEN res
  ELSE IndexVariableForward(s, pos, j + 1, pos[j + 1] + s[j + 1] * res)

IndexFromFirstAxis(s, pos) == IndexVariableForward(s, pos, 0, 0)

\* IndexRecursionImpl<-1>::index(shape, pos)
IndexRecursionImplVariable(s, pos) == IndexVariableLoop(s, pos, 0, 0)

\* IndexRecursionImpl<N>::index(shape, pos)
IndexRecursionImplFixed(s, pos) == IndexFixed(s, pos, 1)

\* A random shape and a random position of dimension 4.
IndexTestInit ==
  \E s \in [1..IndexTestDim -> 0..MaxRand],
     pos \in [1..IndexTestDim -> 0..MaxRand] :
    indexTest = [pc |-> "start", shape |-> s, pos |-> pos,
                 fixedIndex |-> 0, variableIndex |-> 0]

\* auto fixedIndex = IndexRecursionImpl<4>::index(fixedShape, fixedPos)
ComputeFixedIndex ==
  /\ indexTest.pc = "start"
  /\ indexTest' = [indexTest EXCEPT
                     !.pc = "fixed",
                     !.fixedIndex = IndexRecursionImplFixed(indexTest.shape,
                                                            indexTest.pos)]
  /\ UNCHANGED <<regions, raster, bintable, compression, wrapper, mefFile>>

\* auto variableIndex = IndexRecursionImpl<-1>::index(variableShape,
\* variablePos), the variable shape and position being copies of the fixed.
ComputeVariableIndex ==
  /\ indexTest.pc = "fixed"
  /\ indexTest' = [indexTest EXCEPT
                     !.pc = "done",
                     !.variableIndex =
                        IndexRecursionImplVariable(indexTest.shape,
                                                   indexTest.pos)]
  /\ UNCHANGED <<regions, raster, bintable, compression, wrapper, mefFile>>

\* C1: for every shape s and position p of length 4, the index of the
\* fixed-dimension path and the index of the variable-dimension path are
\* equal, and equal to p[0] + s[0]*(p[1] + s[1]*(p[2] + s[2]*p[3])).
C1_IndexPathsAgree ==
  LET s == indexTest.shape
      q == indexTest.pos
  IN  indexTest.pc = "done" =>
        /\ indexTest.variableIndex = indexTest.fixedIndex
        /\ indexTest.fixedIndex
             = q[1] + s[1] * (q[2] + s[2] * (q[3] + s[3] * q[4]))

\* Both indices have been computed for a shape and a position whose index
\* depends on every axis.
C1_Witness ==
  /\ indexTest.pc = "done"
  /\ \A k \in 1..IndexTestDim :
       indexTest.shape[k] >= 2 /\ indexTest.pos[k] >= 1
  /\ indexTest.pos[1] # indexTest.pos[4]

InitIndex ==
  /\ IndexTestInit
  /\ regions = RegionsIdle
  /\ raster = RasterIdle
  /\ bintable = BintableIdle
  /\ compression = CompressionIdle
  /\ wrapper = WrapperIdle
  /\ mefFile = MefFileIdle

NextIndex == ComputeFixedIndex \/ ComputeVariableIndex

SpecIndex == InitIndex /\ [][NextIndex]_vars

(***************************************************************************)
(* Raster: a shape and a contiguous buffer of its values, with             *)
(* bound-checked access and contiguous views.                              *)
(***************************************************************************)

\* Largest length of a raster along one axis.
MaxLength == 4

\* Dimensions of the rasters: the default one and the next.
RasterDims == {2, 3}

\* The value held at an offset of the buffer.
Pixel(offset) == <<"pixel", offset>>

RECURSIVE shapeSize(_)
\* shapeSize(shape): the number of values of a raster of that shape.
shapeSize(s) == IF s = <<>> THEN 1 ELSE Head(s) * shapeSize(Tail(s))

\* Raster::index(pos)
index(r, pos) == IndexRecursionImplFixed(r.shape, pos)

\* Raster::operator[](pos)
Subscript(r, pos) == r.data[index(r, pos)]

\* The position at() looks up: a negative component counts from the end.
BoundedPosition(r, pos) ==
  [i \in DOMAIN pos |-> IF pos[i] < 0 THEN pos[i] + r.shape[i] ELSE pos[i]]

\* at() checking the bounds without resolving the negative components.
AtForwardOnly(r, pos) ==
  IF \A i \in DOMAIN pos : pos[i] >= 0 /\ pos[i] <= r.shape[i] - 1
  THEN [status |-> "ok", value |-> Subscript(r, pos)]
  ELSE [status |-> "OutOfBoundsError", value |-> Pixel(0)]

\* Raster::at(pos)
at(r, pos) ==
  LET boundedPos == BoundedPosition(r, pos)
  IN  IF \A i \in DOMAIN pos :
           boundedPos[i] >= 0 /\ boundedPos[i] <= r.shape[i] - 1
      THEN [status |-> "ok", value |-> Subscript(r, boundedPos)]
      ELSE [status |-> "OutOfBoundsError", value |-> Pixel(0)]

\* isContiguous<M>() leaving the axis after the last axis of the slice free.
IsContiguousSkippingAxis(r, M, region) ==
  /\ \A i \in 1..(M - 1) :
       region.front[i] = 0 /\ region.back[i] = r.shape[i] - 1
  /\ \A i \in (M + 2)..Len(r.shape) : region.front[i] = region.back[i]

\* Raster::isContiguous<M>(region)
isContiguous(r, M, region) ==
  /\ \A i \in 1..(M - 1) :
       region.front[i] = 0 /\ region.back[i] = r.shape[i] - 1
  /\ \A i \in (M + 1)..Len(r.shape) : region.front[i] = region.back[i]

\* slice<M>() taking the start of the buffer for the start of the region.
SliceFromOrigin(r, M, region) ==
  IF isContiguous(r, M, region)
  THEN [status |-> "ok",
        shape |-> [i \in 1..M |-> region.back[i] - region.front[i] + 1],
        offset |-> 0]
  ELSE [status |-> "NotContiguous", shape |-> <<>>, offset |-> 0]

\* Raster::slice<M>(region): a raster of dimension M on the buffer of the
\* parent, starting at the front of the region.
slice(r, M, region) ==
  IF isContiguous(r, M, region)
  THEN [status |-> "ok",
        shape |-> [i \in 1..M |-> region.back[i] - region.front[i] + 1],
        offset |-> index(r, region.front)]
  ELSE [status |-> "NotContiguous", shape |-> <<>>, offset |-> 0]

\* The value at an offset of a slice.
SliceValue(r, view, q) == r.data[view.offset + q]

\* A raster of some shape, holding one value per position.
RasterInit ==
  \E n \in RasterDims :
    \E s \in [1..n -> 1..MaxLength] :
      raster = [pc |-> "ready", shape |-> s,
                data |-> [k \in 0..(shapeSize(s) - 1) |-> Pixel(k)],
                pos |-> [i \in 1..n |-> 0],
                M |-> 0,
                region |-> [front |-> [i \in 1..n |-> 0],
                            back |-> [i \in 1..n |-> 0]],
                result |-> [status |-> None]]

\* raster.at(pos), for a position inside, before or after the raster.
At ==
  /\ raster.pc = "ready"
  /\ \E pos \in [DOMAIN raster.shape -> (-MaxLength - 1)..MaxLength] :
       /\ \A i \in DOMAIN pos :
            pos[i] >= -raster.shape[i] - 1 /\ pos[i] <= raster.shape[i]
       /\ raster' = [raster EXCEPT !.pc = "at", !.pos = pos,
                                   !.result = at(raster, pos)]
  /\ UNCHANGED <<regions, indexTest, bintable, compression, wrapper, mefFile>>

\* The regions inside a raster: front <= back on every axis.
RegionsOf(r) ==
  {[front |-> f, back |-> b] :
     f \in {f \in [DOMAIN r.shape -> 0..(MaxLength - 1)] :
              \A i \in DOMAIN f : f[i] <= r.shape[i] - 1},
     b \in {b \in [DOMAIN r.shape -> 0..(MaxLength - 1)] :
              \A i \in DOMAIN b : b[i] <= r.shape[i] - 1}}

\* raster.slice<M>(region), for a region inside the raster.
Slice ==
  /\ raster.pc = "ready"
  /\ \E M \in 1..Len(raster.shape), region \in RegionsOf(raster) :
       /\ \A i \in DOMAIN raster.shape : region.front[i] <= region.back[i]
       /\ raster' = [raster EXCEPT !.pc = "slice", !.M = M,
                                   !.region = region,
                                   !.result = slice(raster, M, region)]
  /\ UNCHANGED <<regions, indexTest, bintable, compression, wrapper, mefFile>>

\* raster.isContiguous<M>(region), for a region inside the raster.
IsContiguous ==
  /\ raster.pc = "ready"
  /\ \E M \in 1..Len(raster.shape), region \in RegionsOf(raster) :
       /\ \A i \in DOMAIN raster.shape : region.front[i] <= region.back[i]
       /\ raster' = [raster EXCEPT
                       !.pc = "isContiguous", !.M = M, !.region = region,
                       !.result = [status |-> "ok",
                                   value |-> isContiguous(raster, M, region)]]
  /\ UNCHANGED <<regions, indexTest, bintable, compression, wrapper, mefFile>>

InitRaster ==
  /\ RasterInit
  /\ regions = RegionsIdle
  /\ indexTest = IndexTestIdle
  /\ bintable = BintableIdle
  /\ compression = CompressionIdle
  /\ wrapper = WrapperIdle
  /\ mefFile = MefFileIdle

NextRaster == At \/ Slice \/ IsContiguous

SpecRaster == InitRaster /\ [][NextRaster]_vars

RECURSIVE OffsetOf(_, _, _)
\* pos[k] + shape[k] * (pos[k+1] + shape[k+1] * (...)), written out.
OffsetOf(s, pos, k) ==
  IF k > Len(pos) THEN 0 ELSE pos[k] + s[k] * OffsetOf(s, pos, k + 1)

\* The position is within [-shape[i], shape[i] - 1] along every axis.
WithinBackwardBounds(s, pos) ==
  \A i \in DOMAIN pos : -s[i] <= pos[i] /\ pos[i] <= s[i] - 1

\* C9: at(pos) succeeds exactly when -shape[i] <= pos[i] <= shape[i] - 1
\* along every axis, and then returns the element whose coordinate along
\* axis i is pos[i] if pos[i] >= 0 and shape[i] + pos[i] otherwise; for a
\* raster of shape (4, 3), at({-1, -1}) is the element at (3, 2) and
\* at({-4, 0}) is the element at offset 0.
C9_AtIndexesBackwardWithinBounds ==
  LET s == raster.shape
      pos == raster.pos
      target == [i \in DOMAIN pos |->
                   IF pos[i] >= 0 THEN pos[i] ELSE s[i] + pos[i]]
  IN  raster.pc = "at" =>
        /\ raster.result.status = "ok" <=> WithinBackwardBounds(s, pos)
        /\ ~WithinBackwardBounds(s, pos) =>
             raster.result.status = "OutOfBoundsError"
        /\ WithinBackwardBounds(s, pos) =>
             raster.result.value = raster.data[OffsetOf(s, target, 1)]
        /\ s = <<4, 3>> /\ pos = <<-1, -1>> =>
             raster.result = [status |-> "ok", value |-> raster.data[11]]
        /\ s = <<4, 3>> /\ pos = <<-4, 0>> =>
             raster.result = [status |-> "ok", value |-> raster.data[0]]

\* at({-1, -1}) has returned the last element of a raster of shape (4, 3).
C9_Witness ==
  /\ raster.pc = "at"
  /\ raster.shape = <<4, 3>>
  /\ raster.pos = <<-1, -1>>
  /\ raster.result.status = "ok"

\* The positions of a region.
PositionsOf(region) ==
  {pos \in [DOMAIN region.front -> 0..(MaxLength - 1)] :
     \A i \in DOMAIN pos :
       region.front[i] <= pos[i] /\ pos[i] <= region.back[i]}

\* The region spans the axes before axis M - 1 and is flat along the axes
\* from axis M on, the axes being counted from 0.
SpansThenFlat(s, M, region) ==
  /\ \A i \in 0..(Len(s) - 1) :
       i < M - 1 =>
         region.front[i + 1] = 0 /\ region.back[i + 1] = s[i + 1] - 1
  /\ \A i \in 0..(Len(s) - 1) :
       i >= M => region.front[i + 1] = region.back[i + 1]

\* C10: when the region satisfies the contiguity predicate for M, its
\* elements occupy consecutive offsets of the buffer starting at
\* index(region.front), and slice<M>(region) is a view on exactly these
\* elements, in the order of the buffer.
C10_SliceIsContiguousView ==
  LET s == raster.shape
      region == raster.region
      view == raster.result
      base == OffsetOf(s, region.front, 1)
      count == Cardinality(PositionsOf(region))
  IN  raster.pc = "slice" /\ SpansThenFlat(s, raster.M, region) =>
        /\ view.status = "ok"
        /\ {OffsetOf(s, pos, 1) : pos \in PositionsOf(region)}
             = base..(base + count - 1)
        /\ shapeSize(view.shape) = count
        /\ \A pos \in PositionsOf(region) :
             SliceValue(raster, view,
                        OffsetOf(view.shape,
                                 [i \in 1..raster.M |->
                                    pos[i] - region.front[i]], 1))
               = raster.data[OffsetOf(s, pos, 1)]

\* A slice of several elements which starts after the start of the buffer
\* and stops before its end has been taken from a raster of dimension 3.
C10_Witness ==
  /\ raster.pc = "slice"
  /\ Len(raster.shape) = 3
  /\ raster.M = 2
  /\ SpansThenFlat(raster.shape, raster.M, raster.region)
  /\ raster.result.status = "ok"
  /\ raster.region.front[2] > 0
  /\ raster.region.back[2] > raster.region.front[2]
  /\ raster.region.back[2] < raster.shape[2] - 1
  /\ raster.shape[1] > 1
  /\ raster.region.front[3] > 0

MaxCoord == 2

\* The documented usage: file position (5,5), whole raster of shape
\* (10,10), file array of shape (20,20).
ExampleFilePosition == <<5, 5>>

ExampleFileBack == <<19, 19>>

ExampleMemoryBack == <<9, 9>>

\* FileMemRegions(fileRegion, memoryPosition)
FileMemRegionsOfFileRegion(fileRegion, memoryPosition) ==
  LET memory == fromShape(memoryPosition, shape(fileRegion))
  IN  [m_file |-> fileRegion,
       m_memory |-> IF isMax(fileRegion.back)
                    THEN [memory EXCEPT !.back = zero(Len(memoryPosition))]
                    ELSE memory]

\* FileMemRegions(filePosition, memoryRegion)
FileMemRegionsOfFilePosition(filePosition, memoryRegion) ==
  LET file == fromShape(filePosition, shape(memoryRegion))
  IN  [m_file |-> IF isMax(memoryRegion.back)
                  THEN [file EXCEPT !.back = zero(Len(filePosition))]
                  ELSE file,
       m_memory |-> memoryRegion]

fileToMemory(r) == PosSub(r.m_memory.front, r.m_file.front)

memoryToFile(r) == PosSub(r.m_file.front, r.m_memory.front)

\* One turn of the loop of resolve(): the backs of axis i, as the pair
\* <<file back, memory back>>.
ResolveAxis(r, fileBack, memoryBack, i) ==
  LET ftom == fileToMemory(r)
  IN  IF r.m_file.back[i] = Unresolved
      THEN <<fileBack[i], fileBack[i] + ftom[i]>>
      ELSE IF r.m_memory.back[i] = Unresolved
           THEN <<memoryBack[i] - ftom[i], memoryBack[i]>>
           ELSE <<r.m_file.back[i], r.m_memory.back[i]>>

\* resolve() without its second branch: an open memory side stays open.
ResolveFileOnly(r, fileBack, memoryBack) ==
  [m_file |-> [r.m_file EXCEPT !.back =
                 [i \in DOMAIN r.m_file.back |->
                    IF r.m_file.back[i] = Unresolved
                    THEN fileBack[i] ELSE r.m_file.back[i]]],
   m_memory |-> [r.m_memory EXCEPT !.back =
                 [i \in DOMAIN r.m_memory.back |->
                    IF r.m_file.back[i] = Unresolved
                    THEN fileBack[i] + fileToMemory(r)[i]
                    ELSE r.m_memory.back[i]]]]

\* resolve() filling each open side from its own bound, deriving nothing.
ResolveNoDerive(r, fileBack, memoryBack) ==
  [m_file |-> [r.m_file EXCEPT !.back =
                 [i \in DOMAIN r.m_file.back |->
                    IF r.m_file.back[i] = Unresolved
                    THEN fileBack[i] ELSE r.m_file.back[i]]],
   m_memory |-> [r.m_memory EXCEPT !.back =
                 [i \in DOMAIN r.m_memory.back |->
                    IF r.m_memory.back[i] = Unresolved
                    THEN memoryBack[i] ELSE r.m_memory.back[i]]]]

\* resolve() applying the translation vector with the wrong sign.
ResolveWrongSign(r, fileBack, memoryBack) ==
  LET ftom == fileToMemory(r)
      axis(i) == IF r.m_file.back[i] = Unresolved
                 THEN <<fileBack[i], fileBack[i] - ftom[i]>>
                 ELSE IF r.m_memory.back[i] = Unresolved
                      THEN <<memoryBack[i] + ftom[i], memoryBack[i]>>
                      ELSE <<r.m_file.back[i], r.m_memory.back[i]>>
  IN  [m_file |-> [r.m_file EXCEPT !.back =
                     [i \in DOMAIN r.m_file.back |-> axis(i)[1]]],
       m_memory |-> [r.m_memory EXCEPT !.back =
                     [i \in DOMAIN r.m_memory.back |-> axis(i)[2]]]]

\* resolve(fileBack, memoryBack)
resolve(r, fileBack, memoryBack) ==
  [m_file |-> [r.m_file EXCEPT !.back =
                 [i \in DOMAIN r.m_file.back |->
                    ResolveAxis(r, fileBack, memoryBack, i)[1]]],
   m_memory |-> [r.m_memory EXCEPT !.back =
                   [i \in DOMAIN r.m_memory.back |->
                      ResolveAxis(r, fileBack, memoryBack, i)[2]]]]

\* The coordinates tried along axis i of an array whose last index is b:
\* all of them for the small arrays, the documented ones for the example.
AxisFronts(b, i) ==
  IF b <= MaxCoord THEN 0..b ELSE {0, ExampleFilePosition[i], b}

AxisBacks(f, b) ==
  {Unresolved} \cup (IF b <= MaxCoord THEN f..b ELSE {f, b})

PositionsIn(arrayBack) ==
  {p \in [1..Dim -> UNION {AxisFronts(arrayBack[i], i) : i \in 1..Dim}] :
     \A i \in 1..Dim : p[i] \in AxisFronts(arrayBack[i], i)}

BacksIn(f, arrayBack) ==
  {b \in [1..Dim -> UNION {AxisBacks(f[i], arrayBack[i]) : i \in 1..Dim}] :
     \A i \in 1..Dim : b[i] \in AxisBacks(f[i], arrayBack[i])}

\* The regions a caller may give for an array: a front inside the array
\* and, on each axis, a back inside the array or left open.
RegionsIn(arrayBack) ==
  UNION {{[front |-> f, back |-> b] : b \in BacksIn(f, arrayBack)} :
           f \in PositionsIn(arrayBack)}

ArrayBacks == [1..Dim -> 0..MaxCoord]

\* The file array and the raster exist; no mapping is built yet.
RegionsInit ==
  \E fb \in ArrayBacks \cup {ExampleFileBack},
     mb \in ArrayBacks \cup {ExampleMemoryBack} :
    /\ (fb = ExampleFileBack) <=> (mb = ExampleMemoryBack)
    /\ regions = [RegionsIdle EXCEPT !.pc = "start", !.fileBack = fb,
                                     !.memoryBack = mb]

\* FileMemRegions(fileRegion, memoryPosition)
ConstructFromFileRegion ==
  /\ regions.pc = "start"
  /\ \E fileRegion \in RegionsIn(regions.fileBack),
        memoryPosition \in PositionsIn(regions.memoryBack) :
       LET r == FileMemRegionsOfFileRegion(fileRegion, memoryPosition)
       IN  regions' = [regions EXCEPT !.pc = "constructed",
                                      !.ctor = "fileRegion",
                                      !.argRegion = fileRegion,
                                      !.argPosition = memoryPosition,
                                      !.m_file = r.m_file,
                                      !.m_memory = r.m_memory]
  /\ UNCHANGED <<indexTest, raster, bintable, compression, wrapper, mefFile>>

\* FileMemRegions(filePosition, memoryRegion)
ConstructFromFilePosition ==
  /\ regions.pc = "start"
  /\ \E filePosition \in PositionsIn(regions.fileBack),
        memoryRegion \in RegionsIn(regions.memoryBack) :
       LET r == FileMemRegionsOfFilePosition(filePosition, memoryRegion)
       IN  regions' = [regions EXCEPT !.pc = "constructed",
                                      !.ctor = "filePosition",
                                      !.argRegion = memoryRegion,
                                      !.argPosition = filePosition,
                                      !.m_file = r.m_file,
                                      !.m_memory = r.m_memory]
  /\ UNCHANGED <<indexTest, raster, bintable, compression, wrapper, mefFile>>

\* regions.resolve(read_shape() - 1, raster.shape() - 1), as write_region
\* calls it.
Resolve ==
  /\ regions.pc = "constructed"
  /\ LET r == resolve([m_file |-> regions.m_file, m_memory |-> regions.m_memory],
                      regions.fileBack, regions.memoryBack)
     IN  regions' = [regions EXCEPT !.pc = "resolved",
                                    !.m_file = r.m_file,
                                    !.m_memory = r.m_memory]
  /\ UNCHANGED <<indexTest, raster, bintable, compression, wrapper, mefFile>>

InitRegions ==
  /\ RegionsInit
  /\ indexTest = IndexTestIdle
  /\ raster = RasterIdle
  /\ bintable = BintableIdle
  /\ compression = CompressionIdle
  /\ wrapper = WrapperIdle
  /\ mefFile = MefFileIdle

NextRegions == ConstructFromFileRegion \/ ConstructFromFilePosition \/ Resolve

SpecRegions == InitRegions /\ [][NextRegions]_vars

AxisOpen(back) == {i \in DOMAIN back : back[i] = Unresolved}

\* C5: after resolve(fileBack, memoryBack) with the last positions of the
\* file array and of the raster, no component of file().back and none of
\* memory().back is the unresolved value -1.
C5_ResolveLeavesNothingUnresolved ==
  regions.pc = "resolved" =>
    /\ AxisOpen(regions.m_file.back) = {}
    /\ AxisOpen(regions.m_memory.back) = {}

\* A mapping built from a file region open on one axis only, and one built
\* from an open memory region, have been resolved.
C5_Witness ==
  /\ regions.pc = "resolved"
  /\ \/ /\ regions.ctor = "fileRegion"
        /\ Cardinality(AxisOpen(regions.argRegion.back)) = 1
        /\ regions.argRegion.front # regions.argPosition
     \/ /\ regions.ctor = "filePosition"
        /\ AxisOpen(regions.argRegion.back) = 1..Dim
        /\ regions.argPosition # zero(Dim)

\* C6: whichever constructor built the mapping, there is no axis at which
\* file().back and memory().back are both -1.
C6_NeverBothUnresolved ==
  regions.pc = "constructed" =>
    AxisOpen(regions.m_file.back) \cap AxisOpen(regions.m_memory.back) = {}

\* C7: after resolve, the in-file and the in-memory regions have the same
\* shape on every axis.
C7_ResolvedShapesEqual ==
  regions.pc = "resolved" =>
    PosSub(regions.m_file.back, regions.m_file.front)
      = PosSub(regions.m_memory.back, regions.m_memory.front)

\* A mapping built from a file position and a memory region open on one
\* axis, at different fronts, has been resolved.
C7_Witness ==
  /\ regions.pc = "resolved"
  /\ regions.ctor = "filePosition"
  /\ Cardinality(AxisOpen(regions.argRegion.back)) = 1
  /\ \A i \in 1..Dim : regions.argPosition[i] # regions.argRegion.front[i]

\* The caller's arguments as they must read after resolve: the fronts, and
\* every back component the caller gave.
SpecifiedSideKept ==
  LET given == regions.argRegion
      side == IF regions.ctor = "fileRegion"
              THEN regions.m_file ELSE regions.m_memory
      other == IF regions.ctor = "fileRegion"
               THEN regions.m_memory ELSE regions.m_file
  IN  /\ side.front = given.front
      /\ other.front = regions.argPosition
      /\ \A i \in 1..Dim :
           given.back[i] # Unresolved => side.back[i] = given.back[i]

IsExample ==
  /\ regions.ctor = "filePosition"
  /\ regions.argPosition = ExampleFilePosition
  /\ regions.argRegion = whole(Dim)
  /\ regions.fileBack = ExampleFileBack
  /\ regions.memoryBack = ExampleMemoryBack

\* C8: resolve changes neither front and no back the caller specified; built
\* from file position (5,5) and the whole region of a (10,10) raster and
\* resolved against a (20,20) file, the mapping is memory (0,0)..(9,9) and
\* file (5,5)..(14,14): the file back is the memory back shifted by the
\* translation vector.
C8_ResolveKeepsSpecifiedSide ==
  regions.pc = "resolved" =>
    /\ SpecifiedSideKept
    /\ IsExample =>
         /\ regions.m_memory = [front |-> <<0, 0>>, back |-> <<9, 9>>]
         /\ regions.m_file = [front |-> <<5, 5>>, back |-> <<14, 14>>]
         /\ regions.m_file.back
              = PosAdd(regions.m_memory.back,
                       memoryToFile([m_file |-> regions.m_file,
                                     m_memory |-> regions.m_memory]))

\* The documented example has been built and resolved.
C8_Witness == regions.pc = "resolved" /\ IsExample

\* C29: for every mapping whose specified fronts and backs lie inside
\* their arrays, after resolve(fileBack, memoryBack) with the last
\* positions of the file array and of the raster, both regions lie inside
\* their arrays: front <= back, file().back <= fileBack and
\* memory().back <= memoryBack on every axis.
C29_ResolvedRegionsInsideArrays ==
  regions.pc = "resolved" =>
    \A i \in 1..Dim :
      /\ regions.m_file.front[i] <= regions.m_file.back[i]
      /\ regions.m_file.back[i] <= regions.fileBack[i]
      /\ regions.m_memory.front[i] <= regions.m_memory.back[i]
      /\ regions.m_memory.back[i] <= regions.memoryBack[i]

(***************************************************************************)
(* Binary-table column I/O: readColumns and writeColumns transfer several  *)
(* columns chunk by chunk, with one bulk call of the storage engine per    *)
(* column and chunk.                                                       *)
(***************************************************************************)

\* Largest number of rows of the table and of a column.
MaxRows == 3

\* Largest row-chunk size the engine reports (0 included).
MaxChunk == 3

\* Largest number of columns of the table.
MaxColumns == 2

\* Repeat counts of the columns: scalar and vector columns.
RepeatCounts == {1, 2}

\* Repeat count of a default-constructed column (a scalar column).
DefaultRepeatCount == 1

\* The statuses an engine call returns: 0 for a success.
EngineStatuses == {0, 1}

\* Values of the cells, <<origin, column, row, element>>: the origin is the
\* file or the caller's columns; the other values are those of a freshly
\* allocated buffer and those read from outside a buffer.
FileValue == "file"

CallerValue == "caller"

ZeroValue == <<"zero", 0, 0, 0>>

GarbageValue == <<"garbage", 0, 0, 0>>

\* Row-major cell values of a column: all values of row 1, then row 2, ...
FlatColumn(origin, c, repeatCount, rowCount) ==
  [p \in 1..(rowCount * repeatCount) |->
     <<origin, c, ((p - 1) \div repeatCount) + 1, (p - 1) % repeatCount>>]

\* Segment::fromSize(firstRow, rowCount).size() * repeatCount
TransferSize(rowCount, repeatCount) == rowCount * repeatCount

\* &column(firstRow - 1): offset of the first value of a 0-based row.
RowOffset(row, repeatCount) == row * repeatCount

\* Column index handled first by ColumnLooperImpl<sizeof...(Ts) - 1, ...>:
\* here for a looper starting from the first column.
FirstColumnAscending(n) == 1

\* ColumnLooperImpl<sizeof...(Ts) - 1, ...>: the 1-based first column.
FirstColumn(n) == n

\* ColumnLooperImpl<i - 1, ...>: the column handled after column i
\* (0: past the terminal case).
NextColumn(i) == i - 1

\* The rows of the chunk starting at `first`, never shortened.
ChunkRowsUnshortened(first, chunkRows, rows) == chunkRows

\* The body of the chunk loop up to the looper call: the rows of the chunk
\* starting at `first`.
ChunkRows(first, chunkRows, rows) ==
  LET last == first + chunkRows - 1
  IN  IF last > rows THEN rows - first + 1 ELSE chunkRows

\* The loop condition and the start of its body, or the end of the
\* operation: readColumns returns its columns, writeColumns returns.
ChunkLoopHead(b) ==
  IF b.first <= b.rows
  THEN LET count == ChunkRows(b.first, b.chunkRows, b.rows)
       IN  [b EXCEPT !.pc = IF b.op = "read" THEN "readChunks"
                                             ELSE "writeChunks",
                     !.chunkRows = count,
                     !.i = FirstColumn(Len(b.columns)),
                     !.chunks = Append(@, [first |-> b.first,
                                           count |-> count])]
  ELSE [b EXCEPT !.pc = "idle",
                 !.returned = IF b.op = "read"
                              THEN Append(@, b.columns)
                              ELSE <<>>]

\* The end of a looper call: the next column of the chunk, or the next
\* chunk (first += chunkRows).
ChunkLoopStep(b) ==
  IF NextColumn(b.i) >= 1
  THEN [b EXCEPT !.i = NextColumn(b.i)]
  ELSE ChunkLoopHead([b EXCEPT !.i = NextColumn(b.i),
                               !.first = b.first + b.chunkRows])

\* The failure of a bulk call is not raised: the looper goes on.
BulkCallIgnored(b) == ChunkLoopStep(b)

\* CfitsioError::mayThrow(status, ...) after a failed bulk call: the
\* exception leaves the looper and the chunk loop.
BulkCallRaised(b) == [b EXCEPT !.pc = "raised"]

\* The values of `values` written at `offset` that land inside `buffer`.
StoreAt(buffer, offset, values) ==
  [p \in 1..Len(buffer) |->
     IF p - offset \in 1..Len(values) THEN values[p - offset] ELSE buffer[p]]

\* The same write seen from a buffer allocated right after one of `length`
\* values: the values written past the end of the first land in it.
SpillInto(neighbour, length, offset, values) ==
  [p \in 1..Len(neighbour) |->
     IF length + p - offset \in 1..Len(values)
     THEN values[length + p - offset] ELSE neighbour[p]]

\* The values read at `offset`: those past the buffer are indeterminate.
LoadAt(buffer, offset, size) ==
  [k \in 1..size |->
     IF offset + k <= Len(buffer) THEN buffer[offset + k] ELSE GarbageValue]

\* fits_read_col(colnum = index, firstrow, firstelem = 1, nelements = size)
EngineRead(b, columnIndex, firstRow, size) ==
  LET offset == RowOffset(firstRow - 1, b.fileRepeats[columnIndex])
  IN  [k \in 1..size |->
         IF offset + k <= Len(b.fileData[columnIndex])
         THEN b.fileData[columnIndex][offset + k] ELSE GarbageValue]

\* fits_write_col(colnum = columnIndex, firstrow, firstelem = 1, nelements): the
\* table grows to the last row written, new cells being zero.
EngineWrite(b, columnIndex, firstRow, values) ==
  LET repeatCount == b.fileRepeats[columnIndex]
      lastRow == firstRow - 1 + ((Len(values) + repeatCount - 1) \div repeatCount)
      newRows == Max(b.fileRows, lastRow)
      grown(c) == [p \in 1..(newRows * b.fileRepeats[c]) |->
                     IF p <= Len(b.fileData[c]) THEN b.fileData[c][p]
                     ELSE ZeroValue]
  IN  [b EXCEPT !.fileRows = newRows,
                !.fileData = [c \in DOMAIN b.fileData |->
                                IF c = columnIndex
                                THEN StoreAt(grown(c),
                                             RowOffset(firstRow - 1, repeatCount),
                                             values)
                                ELSE grown(c)]]

\* readColumnInfoImpl for every column (readInfos): the metadata read from
\* the file, and a buffer sized from the column as it was before the call.
ReadInfos(b, indices) ==
  [n \in DOMAIN indices |->
     [repeatCount |-> b.fileRepeats[indices[n]],
      data |-> [p \in 1..(DefaultRepeatCount * b.fileRows) |-> ZeroValue]]]

\* The column indices a caller gives for a table of n columns: all the
\* columns, in the order of the table or in the reverse order.
IndexLists(n) == {[x \in 1..n |-> x], [x \in 1..n |-> n + 1 - x]}

\* Where the buffer of each column sits in memory: after[n] is the column
\* whose buffer follows the buffer of column n (0: something else does).
\* At most one buffer is followed by another, and which one matters only
\* when some transfer is larger than its buffer.
HeapLayouts(n) ==
  {after \in [1..n -> 0..n] :
     /\ \A x \in 1..n : after[x] # x
     /\ Cardinality({x \in 1..n : after[x] # 0}) <= 1}

\* A binary table of some columns and rows is open.
BintableInit ==
  \E n \in 1..MaxColumns, fileRows \in 0..MaxRows :
    \E repeats \in [1..n -> RepeatCounts] :
      bintable = [BintableIdle EXCEPT
                    !.fileRows = fileRows,
                    !.fileRepeats = repeats,
                    !.fileData = [c \in 1..n |->
                                    FlatColumn(FileValue, c, repeats[c],
                                               fileRows)]]

\* readColumns(fptr, indices), up to the first chunk.  The table is read
\* at most twice, the second time the way it was read first and with the
\* buffers laid out in memory as they were, or once column by column.
ReadColumns ==
  /\ bintable.pc = "idle"
  /\ bintable.op # "readColumn"
  /\ Len(bintable.returned) < 2
  /\ \E indices \in IndexLists(Len(bintable.fileRepeats)),
        after \in HeapLayouts(Len(bintable.fileRepeats)),
        chunkRows \in 0..MaxChunk :
       /\ bintable.returned # <<>> =>
            indices = bintable.indices /\ after = bintable.after
       /\ (\A n \in DOMAIN indices :
             bintable.fileRepeats[indices[n]] * bintable.fileRows
               <= DefaultRepeatCount * bintable.fileRows) =>
            after = [n \in DOMAIN indices |-> 0]
       /\ LET b == [bintable EXCEPT !.op = "read",
                                    !.indices = indices,
                                    !.after = after,
                                    !.rows = bintable.fileRows,
                                    !.columns = ReadInfos(bintable, indices),
                                    !.engineChunk = chunkRows,
                                    !.chunkRows = chunkRows,
                                    !.first = 1,
                                    !.i = 0,
                                    !.chunks = <<>>,
                                    !.calls = <<>>]
          IN  bintable' = IF chunkRows = 0
                          THEN [b EXCEPT !.pc = "failed"]
                          ELSE ChunkLoopHead(b)
  /\ UNCHANGED <<regions, indexTest, raster, compression, wrapper, mefFile>>

\* One call of ColumnLooperImpl<i>::readChunks: readColumnData for column i
\* of the chunk.  A transfer larger than the buffer writes outside it.
ReadChunks ==
  /\ bintable.pc = "readChunks"
  /\ LET n == bintable.i
         column == bintable.columns[n]
         offset == RowOffset(bintable.first - 1, column.repeatCount)
         size == TransferSize(bintable.chunkRows, column.repeatCount)
         values == EngineRead(bintable, bintable.indices[n], bintable.first, size)
         inside == offset + size <= Len(column.data)
         call == [column |-> n, index |-> bintable.indices[n],
                  first |-> bintable.first, count |-> bintable.chunkRows]
         b == [bintable EXCEPT
                 !.calls = Append(@, call @@ [status |-> 0]),
                 !.columns = [m \in DOMAIN bintable.columns |->
                    IF m = n
                    THEN [column EXCEPT !.data = StoreAt(@, offset, values)]
                    ELSE IF m = bintable.after[n]
                         THEN [bintable.columns[m] EXCEPT !.data =
                                 SpillInto(@, Len(column.data), offset, values)]
                         ELSE bintable.columns[m]]]
     IN  \E crash \in BOOLEAN, status \in EngineStatuses :
           /\ crash => ~inside /\ status = 0
           /\ bintable' =
                IF status # 0
                THEN BulkCallRaised(
                       [bintable EXCEPT !.calls =
                          Append(@, call @@ [status |-> status])])
                ELSE IF crash THEN [b EXCEPT !.pc = "crashed"]
                     ELSE ChunkLoopStep(b)
  /\ UNCHANGED <<regions, indexTest, raster, compression, wrapper, mefFile>>

\* The columns a caller gives to writeColumns: one per index, with the
\* repeat count of the table's column and its own number of rows.  The
\* columns have the same number of rows, or one row less.
CallerColumns(b, indices, rowCounts) ==
  [n \in DOMAIN indices |->
     [repeatCount |-> b.fileRepeats[indices[n]],
      data |-> FlatColumn(CallerValue, indices[n],
                          b.fileRepeats[indices[n]], rowCounts[n])]]

RowCounts(columns) ==
  {counts \in [columns -> 0..MaxRows] :
     \A x, y \in columns : counts[x] - counts[y] <= 1}

\* Column::rowCount()
rowCount(column) == Len(column.data) \div column.repeatCount

\* ColumnLooperImpl::maxRowCount, over all the columns.
maxRowCount(columns) ==
  LET counts == {rowCount(columns[n]) : n \in DOMAIN columns}
  IN  CHOOSE m \in counts \cup {0} : \A x \in counts : x <= m

\* writeColumns(fptr, columns...), up to the first chunk.
WriteColumns ==
  /\ bintable.pc = "idle"
  /\ bintable.op = None
  /\ \E indices \in IndexLists(Len(bintable.fileRepeats)),
        chunkRows \in 0..MaxChunk :
       \E rowCounts \in RowCounts(DOMAIN indices) :
         LET columns == CallerColumns(bintable, indices, rowCounts)
             b == [bintable EXCEPT !.op = "write",
                                   !.indices = indices,
                                   !.after = [n \in DOMAIN indices |-> 0],
                                   !.rows = maxRowCount(columns),
                                   !.columns = columns,
                                   !.engineChunk = chunkRows,
                                   !.chunkRows = chunkRows,
                                   !.first = 1,
                                   !.i = 0,
                                   !.chunks = <<>>,
                                   !.calls = <<>>,
                                   !.returned = <<>>]
         IN  bintable' = IF chunkRows = 0
                         THEN [b EXCEPT !.pc = "failed"]
                         ELSE ChunkLoopHead(b)
  /\ UNCHANGED <<regions, indexTest, raster, compression, wrapper, mefFile>>

\* One call of ColumnLooperImpl<i>::writeChunks: writeColumnData for column
\* i of the chunk.  A transfer larger than the column reads outside it.
WriteChunks ==
  /\ bintable.pc = "writeChunks"
  /\ LET n == bintable.i
         column == bintable.columns[n]
         offset == RowOffset(bintable.first - 1, column.repeatCount)
         size == TransferSize(bintable.chunkRows, column.repeatCount)
         inside == offset + size <= Len(column.data)
         nonconstData == LoadAt(column.data, offset, size)
         written == EngineWrite(bintable, bintable.indices[n], bintable.first,
                                nonconstData)
         call == [column |-> n, index |-> bintable.indices[n],
                  first |-> bintable.first, count |-> bintable.chunkRows]
         b == [written EXCEPT !.calls = Append(@, call @@ [status |-> 0])]
     IN  \E crash \in BOOLEAN, status \in EngineStatuses :
           /\ crash => ~inside /\ status = 0
           /\ bintable' =
                IF status # 0
                THEN BulkCallRaised(
                       [bintable EXCEPT !.calls =
                          Append(@, call @@ [status |-> status])])
                ELSE IF crash
                     THEN [bintable EXCEPT !.pc = "crashed",
                                           !.calls = b.calls]
                     ELSE ChunkLoopStep(b)
  /\ UNCHANGED <<regions, indexTest, raster, compression, wrapper, mefFile>>

\* readColumn(fptr, index), also reached from readColumn(fptr, name): the
\* metadata of the column, a buffer of repeatCount * rows values and one
\* bulk call for all the rows.
ReadColumn ==
  /\ bintable.pc = "idle"
  /\ bintable.op \in {None, "write"}
  /\ \E columnIndex \in DOMAIN bintable.fileRepeats,
        status \in EngineStatuses :
       LET repeatCount == bintable.fileRepeats[columnIndex]
           rows == bintable.fileRows
           size == TransferSize(rows, repeatCount)
           column == [repeatCount |-> repeatCount,
                      data |-> [p \in 1..(repeatCount * rows) |-> ZeroValue]]
           values == EngineRead(bintable, columnIndex, 1, size)
           b == [bintable EXCEPT !.op = "readColumn",
                                 !.rows = rows,
                                 !.chunks = <<>>,
                                 !.calls = <<>>,
                                 !.single = <<[index |-> columnIndex,
                                               status |-> status]>>]
       IN  bintable' =
             IF status # 0
             THEN BulkCallRaised([b EXCEPT !.columns = <<column>>])
             ELSE [b EXCEPT !.columns =
                     <<[column EXCEPT !.data = StoreAt(@, 0, values)]>>]
  /\ UNCHANGED <<regions, indexTest, raster, compression, wrapper, mefFile>>

InitColumns ==
  /\ BintableInit
  /\ regions = RegionsIdle
  /\ indexTest = IndexTestIdle
  /\ raster = RasterIdle
  /\ compression = CompressionIdle
  /\ wrapper = WrapperIdle
  /\ mefFile = MefFileIdle

NextColumns ==
  ReadColumns \/ ReadChunks \/ WriteColumns \/ WriteChunks \/ ReadColumn

SpecColumns == InitColumns /\ [][NextColumns]_vars

\* The operation that ran last has returned (it neither failed nor is in
\* its loop).
Returned == bintable.op \in {"read", "write"} /\ bintable.pc = "idle"

\* C2: in readColumns and writeColumns, for R rows and an engine chunk
\* size C >= 1, the chunks are the row ranges starting at rows 1, C+1,
\* 2C+1, ..., in increasing order; they are disjoint, together cover rows
\* 1..R exactly once, and only the last one is shortened, to R - first + 1
\* rows; every bulk call is issued for the rows of its chunk.
C2_ChunksCoverRowsInOrder ==
  LET ch == bintable.chunks
      C == bintable.engineChunk
      R == bintable.rows
  IN  (bintable.op \in {"read", "write"} /\ bintable.pc # "failed") =>
        /\ C >= 1
        /\ \A k \in DOMAIN ch :
             /\ ch[k].first = 1 + (k - 1) * C
             /\ ch[k].count = Min(C, R - ch[k].first + 1)
             /\ ch[k].count >= 1
             /\ ch[k].count # C =>
                  k = Len(ch) /\ ch[k].first + ch[k].count - 1 = R
             /\ k < Len(ch) => ch[k].first + ch[k].count <= ch[k + 1].first
        /\ \A c \in DOMAIN bintable.calls :
             \E k \in DOMAIN ch :
               /\ ch[k].first = bintable.calls[c].first
               /\ ch[k].count = bintable.calls[c].count
        /\ Returned =>
             \A r \in 1..R :
               Cardinality({k \in DOMAIN ch :
                              /\ ch[k].first <= r
                              /\ r < ch[k].first + ch[k].count}) = 1

\* A read and a write of 3 rows in chunks of 2 have returned: two chunks,
\* the last one shortened.
C2_Witness ==
  /\ Returned
  /\ bintable.rows = 3
  /\ bintable.engineChunk = 2
  /\ Len(bintable.chunks) = 2
  /\ bintable.chunks[2].count = 1

C4_ReadIndependentOfChunkSize ==
  Len(bintable.returned) = 2 => bintable.returned[1] = bintable.returned[2]

\* The table holds the columns of a caller, whole: they were written into
\* a new table, or over all its rows.
HoldsWrittenColumns ==
  \A c \in DOMAIN bintable.fileData :
    bintable.fileData[c]
      = FlatColumn(CallerValue, c, bintable.fileRepeats[c], bintable.fileRows)

\* C22: columns written into a new table and read back, the engine never
\* failing, are returned equal, element for element, to those written,
\* by a read of a single column or by a read of several columns together,
\* for scalar columns and for columns of repeat count > 1.
C22_ReadBackEqualsWritten ==
  /\ (HoldsWrittenColumns /\ bintable.op = "readColumn"
         /\ bintable.pc = "idle") =>
       bintable.columns[1].data = bintable.fileData[bintable.single[1].index]
  /\ (HoldsWrittenColumns /\ bintable.op = "read"
         /\ bintable.pc \in {"idle", "crashed"}) =>
       /\ bintable.pc = "idle"
       /\ \A n \in DOMAIN bintable.columns :
            bintable.columns[n].data
              = bintable.fileData[bintable.indices[n]]

\* C23: a write of several columns whose row counts differ fails with a
\* FitsError (it neither returns nor goes on), and no bulk call reads a
\* column beyond its own last row.
C23_RowCountMismatchRejected ==
  LET columns == bintable.columns
      calls == bintable.calls
  IN  (bintable.op = "write"
         /\ \E n, m \in DOMAIN columns :
              rowCount(columns[n]) # rowCount(columns[m])) =>
        /\ bintable.pc = "failed"
        /\ \A c \in DOMAIN calls :
             RowOffset(calls[c].first - 1, columns[calls[c].column].repeatCount)
               + TransferSize(calls[c].count,
                              columns[calls[c].column].repeatCount)
               <= Len(columns[calls[c].column].data)

\* C28: in a multi-column read, from before the first chunk on, every
\* output column holds the repeat count read from the file for its index
\* and a buffer of exactly repeat count x row count values, and every chunk
\* transfer of chunk rows x repeat count values at offset (first - 1) x
\* repeat count stays inside the buffer.
C28_ReadBuffersHoldWholeColumns ==
  LET columns == bintable.columns
      calls == bintable.calls
  IN  bintable.op = "read" =>
        /\ \A n \in DOMAIN columns :
             /\ columns[n].repeatCount
                  = bintable.fileRepeats[bintable.indices[n]]
             /\ Len(columns[n].data)
                  = columns[n].repeatCount * bintable.fileRows
        /\ \A c \in DOMAIN calls :
             RowOffset(calls[c].first - 1, columns[calls[c].column].repeatCount)
               + TransferSize(calls[c].count,
                              columns[calls[c].column].repeatCount)
               <= Len(columns[calls[c].column].data)

\* C21: if the engine fails on a bulk call while chunk k of a multi-column
\* write is being written, the failure is raised at once: the failed call
\* is the last bulk call of the write, no call was issued twice, and the
\* file holds the data of every call of the chunks before k.
C21_WriteFailureRaisedAtOnce ==
  LET calls == bintable.calls
      Stored(d) ==
        LET column == bintable.columns[calls[d].column]
            offset == RowOffset(calls[d].first - 1, column.repeatCount)
            size == TransferSize(calls[d].count, column.repeatCount)
            values == LoadAt(column.data, offset, size)
        IN  \A k \in 1..size :
              bintable.fileData[calls[d].index][offset + k] = values[k]
  IN  bintable.op = "write" =>
        \A c \in DOMAIN calls :
          calls[c].status # 0 =>
            /\ bintable.pc = "raised"
            /\ c = Len(calls)
            /\ \A d \in 1..(c - 1) :
                 /\ calls[d].status = 0
                 /\ <<calls[d].column, calls[d].first>>
                      # <<calls[c].column, calls[c].first>>
                 /\ calls[d].first < calls[c].first => Stored(d)

\* A write of two columns failed in its second chunk, after the two calls
\* of the first chunk and one call of the second.
C21_Witness ==
  /\ bintable.op = "write"
  /\ bintable.pc = "raised"
  /\ Len(bintable.columns) = 2
  /\ Len(bintable.chunks) = 2
  /\ Len(bintable.calls) = 4
  /\ bintable.calls[4].status # 0

(***************************************************************************)
(* Compression model: Factor, Quantization and the compression algorithms. *)
(* A float is a number of halves (2.5 is 5 halves, 4 is 8 halves) or NaN,  *)
(* which compares false with everything but through !=.                    *)
(***************************************************************************)

\* Largest magnitude of the floats, in halves.
MaxHalves == 8

Float(h) == [nan |-> FALSE, halves |-> h]

NaN == [nan |-> TRUE, halves |-> 0]

FloatZero == Float(0)

\* a <= b
FloatLeq(a, b) == ~a.nan /\ ~b.nan /\ a.halves <= b.halves

\* a > b
FloatGt(a, b) == ~a.nan /\ ~b.nan /\ a.halves > b.halves

\* a < b
FloatLt(a, b) == ~a.nan /\ ~b.nan /\ a.halves < b.halves

\* a == b
FloatEq(a, b) == ~a.nan /\ ~b.nan /\ a.halves = b.halves

\* -a
FloatNeg(a) == IF a.nan THEN a ELSE Float(-a.halves)

\* std::abs(a)
FloatAbs(a) == IF a.nan \/ a.halves >= 0 THEN a ELSE Float(-a.halves)

\* The floats given to the factories.
FloatInputs == {Float(h) : h \in (-MaxHalves)..MaxHalves} \cup {NaN}

\* The outcome of a call: the exception thrown, or the value returned.
Throws(error) == [thrown |-> error, returned |-> <<>>]

Returns(result) == [thrown |-> None, returned |-> <<result>>]

\* Factor::Factor(value)
Factor(value) == [m_value |-> value]

\* Factor::none()
FactorNone == Factor(FloatZero)

\* Factor::absolute() storing the value as it is given.
FactorAbsoluteUnsigned(value) ==
  IF FloatLeq(value, FloatZero) THEN Throws("FitsError")
  ELSE Returns(Factor(value))

\* Factor::absolute(value)
FactorAbsolute(value) ==
  IF FloatLeq(value, FloatZero) THEN Throws("FitsError")
  ELSE Returns(Factor(FloatNeg(value)))

\* Factor::relative() disabling the factor instead of failing.
FactorRelativeClamped(value) ==
  IF FloatLeq(value, FloatZero) THEN Returns(FactorNone)
  ELSE Returns(Factor(value))

\* Factor::relative(value)
FactorRelative(value) ==
  IF FloatLeq(value, FloatZero) THEN Throws("FitsError")
  ELSE Returns(Factor(value))

\* Factor::type()
FactorType(factor) ==
  IF FloatGt(factor.m_value, FloatZero) THEN "Relative"
  ELSE IF FloatLt(factor.m_value, FloatZero) THEN "Absolute"
  ELSE "None"

\* Factor::value()
FactorValue(factor) == FloatAbs(factor.m_value)

\* Factor::operator bool()
FactorBool(factor) == ~FloatEq(factor.m_value, FloatZero)

\* Factor::operator==()
FactorEq(lhs, rhs) == FloatEq(lhs.m_value, rhs.m_value)

\* The getters applied to the factor a factory returned, if any.
FactorCall(fn, arg, result) ==
  [pc |-> "factor", fn |-> fn, arg |-> arg, result |-> result,
   type |-> IF result.thrown = None
            THEN <<FactorType(result.returned[1])>> ELSE <<>>,
   value |-> IF result.thrown = None
             THEN <<FactorValue(result.returned[1])>> ELSE <<>>]

\* Factor::none() is called and its result observed.
CallFactorNone ==
  /\ compression.pc = "start"
  /\ compression' = FactorCall("none", FloatZero, Returns(FactorNone))
  /\ UNCHANGED <<regions, indexTest, raster, bintable, wrapper, mefFile>>

\* Factor::absolute(value) is called and its result observed.
CallFactorAbsolute ==
  /\ compression.pc = "start"
  /\ \E value \in FloatInputs :
       compression' = FactorCall("absolute", value, FactorAbsolute(value))
  /\ UNCHANGED <<regions, indexTest, raster, bintable, wrapper, mefFile>>

\* Factor::relative(value) is called and its result observed.
CallFactorRelative ==
  /\ compression.pc = "start"
  /\ \E value \in FloatInputs :
       compression' = FactorCall("relative", value, FactorRelative(value))
  /\ UNCHANGED <<regions, indexTest, raster, bintable, wrapper, mefFile>>

\* C12: Factor::absolute(v) and Factor::relative(v) throw for every
\* v <= 0, returning no factor at all, and return a factor for every v > 0.
C12_FactorRejectsNonPositive ==
  LET v == compression.arg
      result == compression.result
  IN  compression.pc = "factor" /\ compression.fn \in {"absolute", "relative"} =>
        /\ (~v.nan /\ v.halves <= 0) =>
             result.thrown = "FitsError" /\ result.returned = <<>>
        /\ (~v.nan /\ v.halves > 0) =>
             result.thrown = None /\ Len(result.returned) = 1

\* Factor::absolute(-1) has thrown.
C12_Witness ==
  /\ compression.pc = "factor"
  /\ compression.fn = "absolute"
  /\ compression.arg = Float(-2)
  /\ compression.result.thrown = "FitsError"

\* C13: for every v > 0, absolute(v) has type Absolute and value v and
\* relative(v) has type Relative and value v; none() has type None and
\* value 0; a factor made by absolute() or relative() from a positive value
\* equals neither none() nor any factor made by the other factory.
C13_SignEncodesFactorType ==
  LET v == compression.arg
      positive == ~v.nan /\ v.halves > 0
      made == compression.result.returned[1]
      others == IF compression.fn = "absolute"
                THEN {FactorRelative(w) : w \in FloatInputs}
                ELSE {FactorAbsolute(w) : w \in FloatInputs}
  IN  compression.pc = "factor" =>
        /\ compression.fn = "none" =>
             compression.type = <<"None">> /\ compression.value = <<Float(0)>>
        /\ compression.fn = "absolute" /\ positive =>
             compression.type = <<"Absolute">> /\ compression.value = <<v>>
        /\ compression.fn = "relative" /\ positive =>
             compression.type = <<"Relative">> /\ compression.value = <<v>>
        /\ compression.fn \in {"absolute", "relative"} /\ positive =>
             /\ ~FactorEq(made, FactorNone)
             /\ \A other \in others :
                  other.thrown = None => ~FactorEq(made, other.returned[1])

\* Factor::absolute(2.5) has returned a factor of type Absolute.
C13_Witness ==
  /\ compression.pc = "factor"
  /\ compression.fn = "absolute"
  /\ compression.arg = Float(5)
  /\ compression.type = <<"Absolute">>
  /\ compression.value = <<Float(5)>>

\* enum class Dithering
Ditherings == {"None", "NonZeroPixel", "EveryPixel"}

\* The factors the factories can return.
Factors ==
  {FactorNone} \cup
  {result.returned[1] :
     result \in {made \in {FactorAbsolute(v) : v \in FloatInputs} \cup
                          {FactorRelative(v) : v \in FloatInputs} :
                   made.thrown = None}}

\* Quantization::level(level) keeping the dithering whatever the level.
QuantizationSetLevelOnly(q, level) == [q EXCEPT !.m_level = level]

\* Quantization::level(level)
QuantizationSetLevel(q, level) ==
  [m_level |-> level,
   m_dithering |-> IF ~FactorBool(level) THEN "None" ELSE q.m_dithering]

\* Quantization::dithering(method)
QuantizationSetDithering(q, method) ==
  IF ~FactorBool(q.m_level) /\ method # "None"
  THEN Throws("FitsError")
  ELSE Returns([q EXCEPT !.m_dithering = method])

\* Quantization::Quantization(level, method)
Quantization(level, method) ==
  QuantizationSetDithering([m_level |-> level, m_dithering |-> "None"],
                           method)

\* Quantization(level) asking for EveryPixel whatever the level.
QuantizationOfLevelEveryPixel(level) == Quantization(level, "EveryPixel")

\* Quantization::Quantization(level)
QuantizationOfLevel(level) ==
  Quantization(level, IF FactorBool(level) THEN "EveryPixel" ELSE "None")

\* Quantization::Quantization()
QuantizationDefault == Quantization(FactorNone, "None")

\* The state after a call on a Quantization: the object if there is one,
\* the call, the object before the call and the exception thrown.
QuantizationCall(fn, level, method, before, outcome) ==
  [pc |-> IF outcome.thrown = None \/ before # <<>>
          THEN "quantization" ELSE "notConstructed",
   q |-> IF outcome.thrown = None THEN outcome.returned ELSE before,
   call |-> [fn |-> fn, level |-> level, method |-> method],
   before |-> before,
   thrown |-> outcome.thrown]

\* One of the three constructors of Quantization is called.
ConstructQuantization ==
  /\ compression.pc = "start"
  /\ \/ compression' = QuantizationCall("Quantization()", FactorNone, "None",
                                        <<>>, QuantizationDefault)
     \/ \E level \in Factors :
          compression' = QuantizationCall("Quantization(level)", level,
                                          "None", <<>>,
                                          QuantizationOfLevel(level))
     \/ \E level \in Factors, method \in Ditherings :
          compression' = QuantizationCall("Quantization(level, method)",
                                          level, method, <<>>,
                                          Quantization(level, method))
  /\ UNCHANGED <<regions, indexTest, raster, bintable, wrapper, mefFile>>

\* quantization.level(level)
SetLevel ==
  /\ compression.pc = "quantization"
  /\ \E level \in Factors :
       compression' =
         QuantizationCall("level", level, "None", compression.q,
                          Returns(QuantizationSetLevel(compression.q[1],
                                                       level)))
  /\ UNCHANGED <<regions, indexTest, raster, bintable, wrapper, mefFile>>

\* quantization.dithering(method)
SetDithering ==
  /\ compression.pc = "quantization"
  /\ \E method \in Ditherings :
       compression' =
         QuantizationCall("dithering", FactorNone, method, compression.q,
                          QuantizationSetDithering(compression.q[1], method))
  /\ UNCHANGED <<regions, indexTest, raster, bintable, wrapper, mefFile>>

\* C14: a Quantization never has a none level together with a dithering
\* other than None, after its construction and after any calls of level()
\* and dithering(): dithering(m) with m other than None on a none level
\* throws and leaves the quantization as it was, level(none) resets the
\* dithering to None, and a constructor which throws makes no object.
C14_NoDitheringWithoutLevel ==
  LET call == compression.call
  IN  /\ compression.pc = "notConstructed" => compression.q = <<>>
      /\ compression.pc = "quantization" =>
           LET q == compression.q[1]
           IN  /\ ~(FactorEq(q.m_level, FactorNone) /\ q.m_dithering # "None")
               /\ (/\ call.fn = "dithering" /\ call.method # "None"
                   /\ FactorEq(compression.before[1].m_level, FactorNone)) =>
                    /\ compression.thrown = "FitsError"
                    /\ compression.q = compression.before
               /\ call.fn = "level" /\ FactorEq(call.level, FactorNone) =>
                    q.m_dithering = "None"

\* level(none) has reset a dithering which was not None.
C14_Witness ==
  /\ compression.pc = "quantization"
  /\ compression.call.fn = "level"
  /\ FactorEq(compression.call.level, FactorNone)
  /\ compression.before[1].m_dithering = "NonZeroPixel"
  /\ compression.q[1].m_dithering = "None"

MaxTilingDimension == 6

\* Largest number of axes of the tiling shapes given to the algorithms.
MaxAxes == 7

\* Largest dimension of the data an algorithm is made for.
MaxDimension == 3

\* The classes of algorithms.
AlgoKinds == {"None", "Rice", "HCompress", "Plio", "Gzip", "ShuffledGzip"}

\* rowwiseTiling(rowCount): tiles of whole rows.
rowwiseTiling(tileRows) == <<-1, tileRows>>

\* wholeDataTiling()
wholeDataTiling == <<-1>>

\* The tiling shapes given to the algorithms: the named ones and one of
\* each number of axes.
Tilings ==
  {wholeDataTiling, rowwiseTiling(1), rowwiseTiling(16)} \cup
  {[i \in 1..n |-> 1] : n \in 0..MaxAxes}

\* OutOfBoundsError::mayThrow(prefix, value, {min, max})
OutOfBoundsMayThrow(value, lower, upper) == value < lower \/ value > upper

\* AlgoMixin<TDerived>::AlgoMixin(shape)
AlgoMixin(kind, tiling) ==
  IF OutOfBoundsMayThrow(Len(tiling), 0, MaxTilingDimension)
  THEN Throws("OutOfBoundsError")
  ELSE Returns([kind |-> kind, m_shape |-> tiling,
                m_quantization |-> QuantizationDefault.returned[1]])

\* The constructors of the algorithms: None(), Rice(shape), HCompress(shape),
\* Plio(shape), Gzip(shape), ShuffledGzip(shape).
Algo(kind, tiling) ==
  LET base == AlgoMixin(kind, IF kind = "None" THEN <<>> ELSE tiling)
  IN  IF base.thrown # None \/ kind # "HCompress" THEN base
      ELSE Returns([kind |-> kind, m_shape |-> base.returned[1].m_shape,
                    m_quantization |-> base.returned[1].m_quantization,
                    m_scale |-> FactorNone, m_smooth |-> FALSE])

\* AlgoMixin::shape(shape)
AlgoSetShape(algo, tiling) == [algo EXCEPT !.m_shape = tiling]

\* AlgoMixin::quantization(quantization)
AlgoSetQuantization(algo, quantization) ==
  [algo EXCEPT !.m_quantization = quantization]

\* HCompress::scale(scale)
HCompressSetScale(algo, scale) == [algo EXCEPT !.m_scale = scale]

\* The state after a call on an algorithm.
AlgoCall(fn, kind, tiling, before, outcome) ==
  [pc |-> IF outcome.thrown = None \/ before # <<>>
          THEN "algo" ELSE "algoNotConstructed",
   algo |-> IF outcome.thrown = None THEN outcome.returned ELSE before,
   call |-> [fn |-> fn, kind |-> kind, shape |-> tiling],
   before |-> before,
   thrown |-> outcome.thrown]

\* An algorithm is constructed with a tiling shape.
ConstructAlgo ==
  /\ compression.pc = "start"
  /\ \E kind \in AlgoKinds, tiling \in Tilings :
       /\ kind = "None" => tiling = <<>>
       /\ compression' = AlgoCall("Algo", kind, tiling, <<>>,
                                  Algo(kind, tiling))
  /\ UNCHANGED <<regions, indexTest, raster, bintable, wrapper, mefFile>>

\* algo.shape(shape)
SetShape ==
  /\ compression.pc = "algo"
  /\ \E tiling \in Tilings :
       compression' =
         AlgoCall("shape", compression.algo[1].kind, tiling, compression.algo,
                  Returns(AlgoSetShape(compression.algo[1], tiling)))
  /\ UNCHANGED <<regions, indexTest, raster, bintable, wrapper, mefFile>>

\* C16: every algorithm carries a tiling shape of at most 6 axes, after its
\* construction and after any calls of its shape() setter: a shape of more
\* than 6 axes is refused with OutOfBoundsError and is never stored.
C16_TilingHasAtMostSixAxes ==
  /\ compression.pc = "algoNotConstructed" => compression.algo = <<>>
  /\ compression.pc = "algo" =>
       /\ Len(compression.algo[1].m_shape) <= 6
       /\ Len(compression.call.shape) > 6 =>
            /\ compression.thrown = "OutOfBoundsError"
            /\ compression.algo = compression.before

\* The bit depths an algorithm is made for: the BITPIX values of FITS and
\* the values around the limits of the selection.
Bitpixes == {-64, -32, 0, 1, 8, 16, 24, 25, 32, 64}

\* The default tiling of the constructors: rowwiseTiling(16) for HCompress,
\* rowwiseTiling() for the others.
DefaultTiling(kind) ==
  IF kind = "HCompress" THEN rowwiseTiling(16) ELSE rowwiseTiling(1)

\* algo->quantization(q) on the object a constructor returned, if it
\* returned one.
ThenQuantization(made, q) ==
  IF made.thrown # None THEN made
  ELSE Returns(AlgoSetQuantization(made.returned[1], q))

\* algo->scale(scale) on the object a constructor returned, if it returned
\* one.
ThenScale(made, scale) ==
  IF made.thrown # None THEN made
  ELSE Returns(HCompressSetScale(made.returned[1], scale))

\* makeLosslessAlgo() scaling HCompress as makeAlgo() does.
makeLosslessAlgoScaled(bitpix, dimension) ==
  LET q0 == QuantizationOfLevel(FactorNone)
  IN  IF q0.thrown # None THEN Throws(q0.thrown)
      ELSE IF bitpix > 0 /\ bitpix <= 24
           THEN ThenQuantization(Algo("Plio", DefaultTiling("Plio")),
                             q0.returned[1])
           ELSE IF dimension >= 2
                THEN ThenScale(ThenQuantization(Algo("HCompress", DefaultTiling("HCompress")),
                             q0.returned[1]),
                          FactorRelative(Float(5)).returned[1])
                ELSE ThenQuantization(Algo("Rice", DefaultTiling("Rice")),
                             q0.returned[1])

\* makeLosslessAlgo(bitpix, dimension)
makeLosslessAlgo(bitpix, dimension) ==
  LET q0 == QuantizationOfLevel(FactorNone)
  IN  IF q0.thrown # None THEN Throws(q0.thrown)
      ELSE IF bitpix > 0 /\ bitpix <= 24
           THEN ThenQuantization(Algo("Plio", DefaultTiling("Plio")),
                             q0.returned[1])
           ELSE IF dimension >= 2
                THEN ThenQuantization(Algo("HCompress", DefaultTiling("HCompress")),
                             q0.returned[1])
                ELSE ThenQuantization(Algo("Rice", DefaultTiling("Rice")),
                             q0.returned[1])

\* makeAlgo() taking Plio for every bit depth up to 24, whatever its sign.
makeAlgoAnySign(bitpix, dimension) ==
  LET q == QuantizationOfLevel(FactorNone)
      scale == FactorRelative(Float(5))
  IN  IF bitpix <= 24
      THEN IF q.thrown # None THEN Throws(q.thrown)
           ELSE ThenQuantization(Algo("Plio", DefaultTiling("Plio")),
                             q.returned[1])
      ELSE IF dimension >= 2
           THEN IF scale.thrown # None THEN Throws(scale.thrown)
                ELSE ThenScale(Algo("HCompress", DefaultTiling("HCompress")),
                          scale.returned[1])
           ELSE Algo("Rice", DefaultTiling("Rice"))

\* makeAlgo(bitpix, dimension); 2.5 is 5 halves.
makeAlgo(bitpix, dimension) ==
  LET q == QuantizationOfLevel(FactorNone)
      scale == FactorRelative(Float(5))
  IN  IF bitpix > 0 /\ bitpix <= 24
      THEN IF q.thrown # None THEN Throws(q.thrown)
           ELSE ThenQuantization(Algo("Plio", DefaultTiling("Plio")),
                             q.returned[1])
      ELSE IF dimension >= 2
           THEN IF scale.thrown # None THEN Throws(scale.thrown)
                ELSE ThenScale(Algo("HCompress", DefaultTiling("HCompress")),
                          scale.returned[1])
           ELSE Algo("Rice", DefaultTiling("Rice"))

\* makeLosslessAlgo(bitpix, dimension) is called.
MakeLosslessAlgo ==
  /\ compression.pc = "start"
  /\ \E bitpix \in Bitpixes, dimension \in 0..MaxDimension :
       compression' = [pc |-> "made", fn |-> "makeLosslessAlgo",
                       bitpix |-> bitpix, dimension |-> dimension,
                       outcome |-> makeLosslessAlgo(bitpix, dimension)]
  /\ UNCHANGED <<regions, indexTest, raster, bintable, wrapper, mefFile>>

\* makeAlgo(bitpix, dimension) is called.
MakeAlgo ==
  /\ compression.pc = "start"
  /\ \E bitpix \in Bitpixes, dimension \in 0..MaxDimension :
       compression' = [pc |-> "made", fn |-> "makeAlgo",
                       bitpix |-> bitpix, dimension |-> dimension,
                       outcome |-> makeAlgo(bitpix, dimension)]
  /\ UNCHANGED <<regions, indexTest, raster, bintable, wrapper, mefFile>>

InitCompression ==
  /\ compression = [pc |-> "start"]
  /\ regions = RegionsIdle
  /\ indexTest = IndexTestIdle
  /\ raster = RasterIdle
  /\ bintable = BintableIdle
  /\ wrapper = WrapperIdle
  /\ mefFile = MefFileIdle

NextCompression ==
  \/ CallFactorNone \/ CallFactorAbsolute \/ CallFactorRelative
  \/ ConstructQuantization \/ SetLevel \/ SetDithering
  \/ ConstructAlgo \/ SetShape
  \/ MakeLosslessAlgo \/ MakeAlgo

SpecCompression == InitCompression /\ [][NextCompression]_vars

\* C17: for every bit depth and dimension makeAlgo and makeLosslessAlgo
\* select the same algorithm: Plio exactly when 0 < bitpix <= 24, otherwise
\* HCompress exactly when dimension >= 2, otherwise Rice.
C17_SameAlgoSelected ==
  LET bitpix == compression.bitpix
      dimension == compression.dimension
      selected == compression.outcome.returned[1].kind
  IN  compression.pc = "made" =>
        /\ compression.outcome.thrown = None
        /\ selected = "Plio" <=> (0 < bitpix /\ bitpix <= 24)
        /\ selected = "HCompress" <=>
             (~(0 < bitpix /\ bitpix <= 24) /\ dimension >= 2)
        /\ selected = "Rice" <=>
             (~(0 < bitpix /\ bitpix <= 24) /\ dimension < 2)
        /\ makeAlgo(bitpix, dimension).returned[1].kind
             = makeLosslessAlgo(bitpix, dimension).returned[1].kind

\* makeAlgo has selected HCompress for 2-dimensional floating-point data.
C17_Witness ==
  /\ compression.pc = "made"
  /\ compression.fn = "makeAlgo"
  /\ compression.bitpix = -32
  /\ compression.dimension = 2
  /\ compression.outcome.returned[1].kind = "HCompress"

\* C18: the algorithm of makeLosslessAlgo has a none quantization level and
\* dithering None, and a none scale when it is HCompress; the HCompress of
\* makeAlgo has the scale relative(2.5) and its Plio has a none
\* quantization level.
C18_LosslessHasNoQuantization ==
  LET algo == compression.outcome.returned[1]
  IN  compression.pc = "made" =>
        /\ compression.outcome.thrown = None
        /\ compression.fn = "makeLosslessAlgo" =>
             /\ FactorEq(algo.m_quantization.m_level, FactorNone)
             /\ FactorType(algo.m_quantization.m_level) = "None"
             /\ algo.m_quantization.m_dithering = "None"
             /\ algo.kind = "HCompress" =>
                  /\ FactorEq(algo.m_scale, FactorNone)
                  /\ FactorType(algo.m_scale) = "None"
        /\ compression.fn = "makeAlgo" =>
             /\ algo.kind = "HCompress" =>
                  /\ FactorType(algo.m_scale) = "Relative"
                  /\ FactorValue(algo.m_scale) = Float(5)
             /\ algo.kind = "Plio" =>
                  FactorEq(algo.m_quantization.m_level, FactorNone)

\* makeLosslessAlgo has made an HCompress.
C18_Witness ==
  /\ compression.pc = "made"
  /\ compression.fn = "makeLosslessAlgo"
  /\ compression.outcome.thrown = None
  /\ compression.outcome.returned[1].kind = "HCompress"

(***************************************************************************)
(* The operations of the wrapper as sequences of engine calls, each of     *)
(* which returns a status: 0 for a success, another value for a failure.   *)
(* An engine function given a non-zero status returns it at once.          *)
(***************************************************************************)

\* The operations and the number of columns each takes.
WrapperOps ==
  {"readColumns", "writeColumns", "insertColumns", "appendColumns",
   "insertColumn", "appendColumn", "writeVectorColumn", "write_subraster"}

SingleColumnOps == {"insertColumn", "appendColumn", "writeVectorColumn"}

\* The operations on a column the table has already.
ExistingColumnOps == {"readColumns", "writeColumns", "writeVectorColumn"}

\* The first engine call of an operation.
FirstCall(op) ==
  CASE op = "readColumns" -> "fits_get_bcolparms"
    [] op = "writeColumns" -> "fits_get_rowsize"
    [] op = "insertColumns" -> "fits_insert_cols"
    [] op = "insertColumn" -> "fits_insert_col"
    [] op \in {"appendColumns", "appendColumn"} -> "fits_get_num_cols"
    [] op = "writeVectorColumn" -> "malloc"
    [] op = "write_subraster" -> "fits_write_pix"

\* The engine call has returned: its status and its output are logged.
Logged(w, fn, status, output) ==
  [w EXCEPT !.log = Append(@, [fn |-> fn, status |-> status,
                               output |-> output])]

\* The operation ends: it returns, or throws the given exception.
Done(w, outcome) == [w EXCEPT !.pc = "done", !.outcome = outcome]

\* CfitsioError::mayThrow(status, ...) after a call, then the next step.
MayThrow(w, status, next) ==
  IF status # 0 THEN Done(w, "CfitsioError") ELSE next

\* The chunk loop taking one more turn, for first = rows + 1.
WrapperLoopHeadInclusive(w) ==
  IF w.first <= w.rows + 1
  THEN [w EXCEPT !.chunkRows = ChunkRows(w.first, w.chunkRows, w.rows),
                 !.i = FirstColumn(w.n),
                 !.iterations = @ + 1,
                 !.pc = IF w.op = "readColumns"
                        THEN "fits_read_col" ELSE "fits_write_col"]
  ELSE Done(w, "returned")

\* The head of the chunk loop: for (first = 1; first <= rows; ...).
WrapperLoopHead(w) ==
  IF w.first <= w.rows
  THEN [w EXCEPT !.chunkRows = ChunkRows(w.first, w.chunkRows, w.rows),
                 !.i = FirstColumn(w.n),
                 !.iterations = @ + 1,
                 !.pc = IF w.op = "readColumns"
                        THEN "fits_read_col" ELSE "fits_write_col"]
  ELSE Done(w, "returned")

\* An operation is called on a table of some columns, with the columns of
\* the caller (n columns of some rows) or a subraster (of some runs).
Call ==
  /\ wrapper.pc = "start"
  /\ \E op \in WrapperOps \ {"write_subraster"}, n \in 1..MaxColumns,
        rows \in 0..MaxRows, position \in 1..(wrapper.tableColumns + 1) :
       /\ op \in SingleColumnOps => n = 1
       /\ op \notin {"insertColumns", "insertColumn"} => position = 1
       /\ op \in ExistingColumnOps => n <= wrapper.tableColumns
       /\ wrapper' = [wrapper EXCEPT
                        !.op = op, !.n = n, !.rows = rows,
                        !.ncols = position - 1,
                        !.exists = op \in ExistingColumnOps,
                        !.i = FirstColumn(n),
                        !.pc = IF op = "writeVectorColumn" /\ rows = 0
                               THEN "columnIndex" ELSE FirstCall(op)]
  /\ UNCHANGED <<regions, indexTest, raster, bintable, compression, mefFile>>

\* ColumnDispatcher<std::vector<T>>::write: one turn of the loop over the
\* rows, which allocates the buffer of a row and copies the row into it;
\* after the last row, ColumnDispatcher<T*>::write is called.
AllocateRow ==
  /\ wrapper.pc = "malloc"
  /\ wrapper' = [wrapper EXCEPT
                   !.allocated = @ + 1,
                   !.live = @ + 1,
                   !.pc = IF wrapper.allocated + 1 = wrapper.rows
                          THEN "columnIndex" ELSE @]
  /\ UNCHANGED <<regions, indexTest, raster, bintable, compression, mefFile>>

\* Largest length of a subraster along one axis.
MaxExtent == 2

\* The axes of a subraster.
SubrasterAxes == 1..3

\* The shapes of the subrasters, the fronts of their regions in the parent
\* raster, the room the parent has after the region, and the positions
\* in the file, of the dimension of the subraster or of a higher one.
SubrasterShapes == [SubrasterAxes -> 1..MaxExtent]

SubrasterFronts == {<<0, 0, 0>>, <<1, 0, 1>>}

SubrasterMargins == {<<0, 0, 0>>, <<1, 1, 0>>}

FrontPositions == {<<0, 0, 0>>, <<2, 1, 0>>, <<1, 0, 2, 3>>}

\* The number of positions of a region.
RegionSize(region) == shapeSize(shape(region))

\* The k-th position (from 0) a loop over a region visits: the first axis
\* varies fastest.
RegionPosition(region, k) ==
  LET s == shape(region)
  IN  [i \in DOMAIN s |->
         region.front[i] + ((k \div shapeSize(SubSeq(s, 1, i - 1))) % s[i])]

\* Position::slice<M>()
PositionSlice(position, M) == SubSeq(position, 1, M)

\* Position::extend(padding)
PositionExtend(position, padding) ==
  [i \in DOMAIN padding |->
     IF i <= Len(position) THEN position[i] ELSE padding[i]]

\* The positions of the whole subraster, its first axis included.
SubrasterLocusWhole(subrasterShape) ==
  fromShape(zero(Len(subrasterShape)), subrasterShape)

\* locus: the positions of the subraster whose first component is 0.
SubrasterLocus(subrasterShape) ==
  LET locus == fromShape(zero(Len(subrasterShape)), subrasterShape)
  IN  [locus EXCEPT !.back[1] = locus.front[1]]

\* write_subraster(front_position, subraster) is called, the subraster
\* being a region of some parent raster.
CallWriteSubraster ==
  /\ wrapper.pc = "start"
  /\ \E subrasterShape \in SubrasterShapes, front \in SubrasterFronts,
        margin \in SubrasterMargins, frontPosition \in FrontPositions :
       LET locus == SubrasterLocus(subrasterShape)
       IN  wrapper' = [wrapper EXCEPT
                         !.op = "write_subraster", !.n = 1,
                         !.shape = subrasterShape,
                         !.regionFront = front,
                         !.parentShape =
                            PosAdd(PosAdd(front, subrasterShape), margin),
                         !.frontPosition = frontPosition,
                         !.locus = locus,
                         !.rows = RegionSize(locus),
                         !.i = RegionSize(locus),
                         !.pc = FirstCall("write_subraster")]
  /\ UNCHANGED <<regions, indexTest, raster, bintable, compression, mefFile>>

\* fits_get_num_cols(fptr, &ncols, &status); the status is not looked at.
GetNumCols ==
  /\ wrapper.pc = "fits_get_num_cols"
  /\ \E status \in EngineStatuses :
       LET ncols == IF status = 0 THEN wrapper.tableColumns ELSE 0
       IN  wrapper' = [Logged(wrapper, "fits_get_num_cols", status, ncols)
                         EXCEPT !.ncols = ncols,
                                !.pc = IF wrapper.op = "appendColumns"
                                       THEN "fits_insert_cols"
                                       ELSE "fits_insert_col"]
  /\ UNCHANGED <<regions, indexTest, raster, bintable, compression, mefFile>>

\* fits_insert_col(fptr, index, ...) and fits_insert_cols(fptr, index, n,
\* ...), index being ncols + 1 for an append; the status is not looked at.
\* The names and formats given are those of the caller's columns, the k-th
\* of the call being those of the k-th column.
InsertCols ==
  /\ wrapper.pc \in {"fits_insert_col", "fits_insert_cols"}
  /\ \E status \in EngineStatuses :
       LET logged == [Logged(wrapper, wrapper.pc, status, wrapper.ncols + 1)
                        EXCEPT !.names = [k \in 1..wrapper.n |-> k]]
           next == IF wrapper.pc = "fits_insert_cols"
                   THEN "fits_get_rowsize" ELSE "columnIndex"
       IN  wrapper' =
             IF status = 0
             THEN [logged EXCEPT !.tableColumns = @ + wrapper.n,
                                 !.inserted = @ + wrapper.n,
                                 !.insertedAt = wrapper.ncols + 1,
                                 !.exists = TRUE,
                                 !.pc = next]
             ELSE [logged EXCEPT !.pc = next]
  /\ UNCHANGED <<regions, indexTest, raster, bintable, compression, mefFile>>

\* fits_get_rowsize(fptr, &chunkRows, &status), chunkRows being 0 before
\* the call; the status is not looked at, a chunkRows of 0 throws.
GetRowsize ==
  /\ wrapper.pc = "fits_get_rowsize"
  /\ \E status \in EngineStatuses, optimal \in 0..MaxChunk :
       /\ status # 0 => optimal = 0
       /\ LET logged == [Logged(wrapper, "fits_get_rowsize", status, optimal)
                           EXCEPT !.chunkRows = optimal, !.optimal = optimal,
                                  !.first = 1]
          IN  wrapper' =
                IF optimal = 0 THEN Done(logged, "FitsError")
                ELSE IF wrapper.op = "readColumns"
                     THEN WrapperLoopHead(logged)
                     ELSE [logged EXCEPT !.pc = "columnIndex"]
  /\ UNCHANGED <<regions, indexTest, raster, bintable, compression, mefFile>>

\* columnIndex(fptr, name) of each column: it fails for a column the table
\* does not have.
ColumnIndex ==
  /\ wrapper.pc = "columnIndex"
  /\ LET status == IF wrapper.exists THEN 0 ELSE 1
         logged == Logged(wrapper, "columnIndex", status, 0)
     IN  wrapper' =
           MayThrow(logged, status,
                    IF wrapper.op \in SingleColumnOps
                    THEN [logged EXCEPT !.pc = "fits_write_col", !.i = 1,
                                        !.first = 1,
                                        !.chunkRows = wrapper.rows]
                    ELSE WrapperLoopHead(logged))
  /\ UNCHANGED <<regions, indexTest, raster, bintable, compression, mefFile>>

\* readColumnInfo(fptr, indices[i]): fits_get_bcolparms, then mayThrow.
GetBcolparms ==
  /\ wrapper.pc = "fits_get_bcolparms"
  /\ \E status \in EngineStatuses :
       LET logged == Logged(wrapper, "fits_get_bcolparms", status, 0)
       IN  wrapper' =
             MayThrow(logged, status,
                      [logged EXCEPT !.i = NextColumn(wrapper.i),
                                     !.pc = IF NextColumn(wrapper.i) = 0
                                            THEN "fits_get_rowsize" ELSE @])
  /\ UNCHANGED <<regions, indexTest, raster, bintable, compression, mefFile>>

\* readColumnData and writeColumnData of column i for the rows of the
\* chunk: fits_read_col or fits_write_col, then mayThrow.
TransferCol ==
  /\ wrapper.pc \in {"fits_read_col", "fits_write_col"}
  /\ \E status \in EngineStatuses :
       LET logged == Logged(wrapper, wrapper.pc, status, wrapper.first)
           moved == [logged EXCEPT !.transferred = @ + 1,
                                   !.i = NextColumn(wrapper.i)]
       IN  wrapper' =
             MayThrow(logged, status,
                      IF moved.i # 0 THEN moved
                      ELSE IF wrapper.op \in SingleColumnOps
                           THEN Done(moved, "returned")
                           ELSE WrapperLoopHead(
                                  [moved EXCEPT !.first = @ + wrapper.chunkRows]))
  /\ UNCHANGED <<regions, indexTest, raster, bintable, compression, mefFile>>

\* One turn of the loop over the locus: fits_write_pix(..., target, nelem,
\* ..., &status) of the nelem values from &subraster[source] on, that is
\* from parent[source + region.front] on; the status is the one the
\* previous turns left and is not looked at.
WritePix ==
  /\ wrapper.pc = "fits_write_pix"
  /\ \E status \in EngineStatuses :
       /\ wrapper.status # 0 => status = wrapper.status
       /\ LET source == RegionPosition(wrapper.locus, Len(wrapper.writes))
              nelem == wrapper.shape[1]
              delta == PositionSlice(wrapper.frontPosition,
                                     Len(wrapper.shape))
              target == PosShift(PositionExtend(PosAdd(source, delta),
                                                wrapper.frontPosition), 1)
              b == IndexRecursionImplFixed(
                     wrapper.parentShape,
                     PosAdd(source, wrapper.regionFront))
              logged == [Logged(wrapper, "fits_write_pix", status, 0)
                           EXCEPT !.status = status,
                                  !.writes = Append(@,
                                     [source |-> source, target |-> target,
                                      offset |-> b, nelem |-> nelem]),
                                  !.transferred =
                                     IF status = 0 THEN @ + 1 ELSE @,
                                  !.i = @ - 1]
          IN  wrapper' = IF logged.i = 0 THEN Done(logged, "returned")
                         ELSE logged
  /\ UNCHANGED <<regions, indexTest, raster, bintable, compression, mefFile>>

\* A table of some columns, before any operation.
WrapperInit ==
  \E tableColumns \in 0..MaxColumns :
    wrapper = [pc |-> "start", op |-> None, n |-> 0, rows |-> 0,
               tableColumns |-> tableColumns, exists |-> FALSE,
               ncols |-> 0, status |-> 0, chunkRows |-> 0, optimal |-> 0,
               iterations |-> 0, first |-> 0, names |-> <<>>,
               i |-> 0, log |-> <<>>, inserted |-> 0, insertedAt |-> 0,
               transferred |-> 0, outcome |-> None,
               allocated |-> 0, live |-> 0,
               shape |-> <<>>, regionFront |-> <<>>, parentShape |-> <<>>,
               frontPosition |-> <<>>, writes |-> <<>>,
               locus |-> [front |-> <<>>, back |-> <<>>]]

InitWrapper ==
  /\ WrapperInit
  /\ regions = RegionsIdle
  /\ indexTest = IndexTestIdle
  /\ raster = RasterIdle
  /\ bintable = BintableIdle
  /\ compression = CompressionIdle
  /\ mefFile = MefFileIdle

NextWrapper ==
  \/ Call \/ GetNumCols \/ InsertCols \/ GetRowsize \/ ColumnIndex
  \/ GetBcolparms \/ TransferCol \/ WritePix
  \/ AllocateRow \/ CallWriteSubraster

SpecWrapper == InitWrapper /\ [][NextWrapper]_vars

\* The exceptions an operation of the wrapper throws.
Failures == {"FitsError", "CfitsioError"}

\* C19: when the engine reports an optimal chunk size of 0, a multi-column
\* read, write, insert or append fails, no column data has been transferred
\* and no column has been inserted into the table.
C19_ChunkSizeZeroAbortsEverything ==
  wrapper.pc = "done"
    /\ (\E k \in DOMAIN wrapper.log :
          /\ wrapper.log[k].fn = "fits_get_rowsize"
          /\ wrapper.log[k].status = 0
          /\ wrapper.log[k].output = 0) =>
      /\ wrapper.outcome \in Failures
      /\ wrapper.transferred = 0
      /\ wrapper.inserted = 0

\* C20: every non-zero status an engine call returned during an operation
\* is raised to the caller: the operation ends with an exception.
C20_NoEngineStatusIgnored ==
  wrapper.pc = "done"
    /\ (\E k \in DOMAIN wrapper.log : wrapper.log[k].status # 0) =>
      wrapper.outcome \in Failures

\* The program runs on: an engine call that can be made is made.
SpecWrapperLive == SpecWrapper /\ WF_vars(NextWrapper)

\* The operations that run the chunk loop.
ChunkLoopOps ==
  {"readColumns", "writeColumns", "insertColumns", "appendColumns"}

\* C30: the chunk loop of readColumns and writeColumns terminates for every
\* row count >= 0 and every chunk size of the engine other than 0, after at
\* most ceil(rows / chunk) iterations, and never issues a bulk call with a
\* row count <= 0.
C30_ChunkLoopTerminates ==
  /\ [](wrapper.op \in ChunkLoopOps /\ wrapper.optimal # 0 =>
          /\ wrapper.iterations * wrapper.optimal
               < wrapper.rows + wrapper.optimal
          /\ wrapper.pc \in {"fits_read_col", "fits_write_col"} =>
               /\ wrapper.chunkRows >= 1
               /\ wrapper.first + wrapper.chunkRows - 1 <= wrapper.rows)
  /\ (wrapper.pc \in {"fits_read_col", "fits_write_col"})
       ~> (wrapper.pc = "done")

\* A loop for 3 rows in chunks of 2 has returned after two iterations.
C30_Witness ==
  /\ wrapper.pc = "done"
  /\ wrapper.op \in ChunkLoopOps
  /\ wrapper.outcome = "returned"
  /\ wrapper.rows = 3
  /\ wrapper.optimal = 2
  /\ wrapper.iterations = 2

\* C27: appendColumn and appendColumns insert at position (current column
\* count + 1); in every insert and append the structural insertion is
\* issued before the first bulk write of the new columns, with the names
\* and formats of the caller's columns in the caller's order.
C27_AppendAtEndInsertBeforeWrite ==
  LET log == wrapper.log
      Inserts == {"fits_insert_col", "fits_insert_cols"}
      InsertOps == {"insertColumn", "insertColumns",
                    "appendColumn", "appendColumns"}
  IN  wrapper.op \in InsertOps =>
        /\ \A k \in DOMAIN log :
             log[k].fn \in Inserts =>
               /\ wrapper.op \in {"appendColumn", "appendColumns"} =>
                    log[k].output
                      = wrapper.tableColumns - wrapper.inserted + 1
               /\ wrapper.names = [j \in 1..wrapper.n |-> j]
               /\ \A j \in 1..(k - 1) : log[j].fn # "fits_write_col"
        /\ \A k \in DOMAIN log :
             log[k].fn = "fits_write_col" =>
               \E j \in 1..(k - 1) : log[j].fn \in Inserts

\* C25: the vector-column write allocates one temporary buffer per row,
\* and when the write has ended, by a return or by a failure of the
\* engine, every one of them has been released: no temporary buffer is
\* live.
C25_TemporaryBuffersReleased ==
  (wrapper.op = "writeVectorColumn" /\ wrapper.pc = "done") =>
    /\ wrapper.allocated = wrapper.rows
    /\ wrapper.live = 0

\* The positions of a subraster of a given shape.
SubrasterPositions(subrasterShape) ==
  {p \in [DOMAIN subrasterShape -> 0..(MaxExtent - 1)] :
     \A i \in DOMAIN p : p[i] < subrasterShape[i]}

\* C26: write_subraster issues exactly one engine write per combination of
\* indices on the axes after the first, each of shape[0] consecutive values
\* of the parent buffer starting at subraster position (0, i1, ...) and
\* targeted at the 1-based file position front_position + (0, i1, ...) + 1;
\* over the call every value of the subraster is written exactly once, in
\* increasing linear order.
C26_OneWritePerRun ==
  LET w == wrapper.writes
      M == Len(wrapper.shape)
      OffsetOf26(p) ==
        IndexRecursionImplFixed(wrapper.parentShape,
                                PosAdd(p, wrapper.regionFront))
  IN  wrapper.op = "write_subraster" =>
        /\ \A k \in DOMAIN w :
             /\ w[k].source \in SubrasterPositions(wrapper.shape)
             /\ w[k].source[1] = 0
             /\ w[k].nelem = wrapper.shape[1]
             /\ w[k].offset = OffsetOf26(w[k].source)
             /\ w[k].target
                  = [i \in DOMAIN wrapper.frontPosition |->
                       wrapper.frontPosition[i]
                         + (IF i <= M THEN w[k].source[i] ELSE 0) + 1]
             /\ \A j \in 1..(k - 1) :
                  /\ w[j].source # w[k].source
                  /\ w[j].offset + w[j].nelem <= w[k].offset
        /\ wrapper.pc = "done" =>
             /\ Len(w) = shapeSize(Tail(wrapper.shape))
             /\ \A p \in SubrasterPositions(wrapper.shape) :
                  Cardinality({k \in DOMAIN w :
                                 /\ w[k].offset <= OffsetOf26(p)
                                 /\ OffsetOf26(p) < w[k].offset + w[k].nelem})
                    = 1

\* A subraster of shape (2, 2, 2), not at the front of its parent, has
\* been written in 4 runs at a file position of a higher dimension.
C26_Witness ==
  /\ wrapper.op = "write_subraster"
  /\ wrapper.pc = "done"
  /\ wrapper.shape = <<2, 2, 2>>
  /\ wrapper.regionFront = <<1, 0, 1>>
  /\ Len(wrapper.frontPosition) = 4
  /\ Len(wrapper.writes) = 4

(***************************************************************************)
(* Multi-extension file: the compression setting of the file handle and    *)
(* the HDUs appended while it is on or off.                                *)
(***************************************************************************)

\* Largest number of HDUs of the file, the Primary included.
MaxHdus == 4

\* The algorithms startCompressing is given.
StartAlgos == {"Gzip", "Rice"}

\* is_compressing: a compression algorithm is set on the file handle.
IsCompressing(f) == f.m_compression # None

\* isCompressedImage, of the HDU at a 1-based index.
IsCompressedImage(f, hdu) == f.hdus[hdu].compressed

\* An HDU as it is appended: its category, the compressed/raw status of the
\* HDU it is copied from (empty when it is made of a raster or of column
\* infos), whether the engine stores it compressed, and the setting of the
\* handle at that moment.
NewHdu(f, category, copiedFrom, stored) ==
  [category |-> category, copiedFrom |-> copiedFrom, compressed |-> stored,
   compressing |-> IsCompressing(f)]

\* An image extension that is created raw whatever the setting of the handle.
CreateImgRaw(f, copiedFrom) ==
  [f EXCEPT !.hdus = Append(@, NewHdu(f, "Image", copiedFrom, FALSE)),
            !.last = "appendImage"]

\* The engine creates an image extension under the setting of the handle.
CreateImg(f, copiedFrom) ==
  [f EXCEPT !.hdus =
              Append(@, NewHdu(f, "Image", copiedFrom, IsCompressing(f))),
            !.last = "appendImage"]

\* A new file: its Primary is an empty raw image and no algorithm is set.
MefFileInit ==
  mefFile =
    [pc |-> "open", m_compression |-> None, last |-> None,
     hdus |-> <<[category |-> "Image", copiedFrom |-> <<>>,
                 compressed |-> FALSE, compressing |-> FALSE]>>]

\* startCompressing(algo) sets the algorithm of the handle.
StartCompressing ==
  /\ mefFile.pc = "open"
  /\ \E algo \in StartAlgos :
       mefFile' = [mefFile EXCEPT !.m_compression = algo,
                                  !.last = "startCompressing"]
  /\ UNCHANGED <<regions, indexTest, raster, bintable, compression, wrapper>>

\* stopCompressing() unsets it.
StopCompressing ==
  /\ mefFile.pc = "open"
  /\ mefFile' = [mefFile EXCEPT !.m_compression = None,
                                !.last = "stopCompressing"]
  /\ UNCHANGED <<regions, indexTest, raster, bintable, compression, wrapper>>

\* appendImage(name, records, raster).
AppendImage ==
  /\ mefFile.pc = "open"
  /\ Len(mefFile.hdus) < MaxHdus
  /\ mefFile' = CreateImg(mefFile, <<>>)
  /\ UNCHANGED <<regions, indexTest, raster, bintable, compression, wrapper>>

\* appendCopy(hdu) of an image HDU of another file, itself compressed or raw.
AppendCopy ==
  /\ mefFile.pc = "open"
  /\ Len(mefFile.hdus) < MaxHdus
  /\ \E sourceCompressed \in BOOLEAN :
       mefFile' =
         CreateImg(mefFile, <<sourceCompressed>>)
  /\ UNCHANGED <<regions, indexTest, raster, bintable, compression, wrapper>>

\* appendBintableHeader(name, records, infos...): a table is never a
\* compressed image.
AppendBintableHeader ==
  /\ mefFile.pc = "open"
  /\ Len(mefFile.hdus) < MaxHdus
  /\ mefFile' =
       [mefFile EXCEPT
          !.hdus = Append(@, NewHdu(mefFile, "Bintable", <<>>, FALSE)),
          !.last = "appendBintableHeader"]
  /\ UNCHANGED <<regions, indexTest, raster, bintable, compression, wrapper>>

InitMefFile ==
  /\ MefFileInit
  /\ regions = RegionsIdle
  /\ indexTest = IndexTestIdle
  /\ raster = RasterIdle
  /\ bintable = BintableIdle
  /\ compression = CompressionIdle
  /\ wrapper = WrapperIdle

NextMefFile ==
  \/ StartCompressing \/ StopCompressing
  \/ AppendImage \/ AppendCopy \/ AppendBintableHeader

SpecMefFile == InitMefFile /\ [][NextMefFile]_vars

====
